---------------------------- MODULE Spec2Model ----------------------------
(***************************************************************************)
(* Classy (src/main.go): a two-pass class-name minifier.  Pass 1 walks a   *)
(* directory and counts, per line, the class names the per-dialect regular *)
(* expressions recognise; rankClasses and generateClassMap turn the counts *)
(* into a map from class name to short name; pass 2 rewrites every file    *)
(* line by line into <path>.tmp and renames it over the original.          *)
(*                                                                         *)
(* A Go string is a sequence of one-character strings.  The regular        *)
(* expressions of main.go:16-20 are kept as syntax trees and run by a      *)
(* backtracking matcher with regexp2's priorities (greedy first, leftmost  *)
(* start).                                                                 *)
(***************************************************************************)
EXTENDS Integers, Sequences, FiniteSets, TLC

-----------------------------------------------------------------------------
(* Characters *)

Lower == <<"a","b","c","d","e","f","g","h","i","j","k","l","m",
           "n","o","p","q","r","s","t","u","v","w","x","y","z">>

Upper == <<"A","B","C","D","E","F","G","H","I","J","K","L","M",
           "N","O","P","Q","R","S","T","U","V","W","X","Y","Z">>

Digits == <<"0","1","2","3","4","5","6","7","8","9">>

Range(f) == {f[i] : i \in DOMAIN f}

Letter == Range(Lower) \cup Range(Upper)

\* \w of the regular expressions
WordChar == Letter \cup Range(Digits) \cup {"_"}

\* \s of the regular expressions, unicode.IsSpace of strings.Fields/TrimSpace
SpaceChar == {" ", "\t"}

DQ == "\""

SQ == "'"

\* the backquote character, which a TLA+ string cannot hold
BQ == "backquote"

-----------------------------------------------------------------------------
(* Go's strings package, on sequences of characters *)

\* s[i:] with a 0-based i
From(s, i) == SubSeq(s, i + 1, Len(s))

\* s[i:j] with 0-based i, j
Slice(s, i, j) == SubSeq(s, i + 1, j)

HasPrefixAt(s, p, t) ==
    /\ p + Len(t) - 1 <= Len(s)
    /\ SubSeq(s, p, p + Len(t) - 1) = t

RECURSIVE IndexFrom(_, _, _)
\* the first 1-based position >= p at which t occurs in s, 0 when there is none
IndexFrom(s, t, p) ==
    IF p + Len(t) - 1 > Len(s) THEN 0
    ELSE IF HasPrefixAt(s, p, t) THEN p
    ELSE IndexFrom(s, t, p + 1)

\* strings.Index: 0-based, -1 when absent
Index(s, t) == IndexFrom(s, t, 1) - 1

RECURSIVE LastIndexFrom(_, _, _)
LastIndexFrom(s, t, p) ==
    IF p < 1 THEN 0
    ELSE IF HasPrefixAt(s, p, t) THEN p
    ELSE LastIndexFrom(s, t, p - 1)

\* strings.LastIndex: 0-based, -1 when absent
LastIndex(s, t) == LastIndexFrom(s, t, Len(s) - Len(t) + 1) - 1

\* strings.HasSuffix
HasSuffix(s, t) ==
    /\ Len(t) <= Len(s)
    /\ SubSeq(s, Len(s) - Len(t) + 1, Len(s)) = t

\* strings.Replace(s, old, new, 1) for a non-empty old
ReplaceFirst(s, old, new) ==
    LET p == IndexFrom(s, old, 1)
    IN  IF p = 0 THEN s
        ELSE SubSeq(s, 1, p - 1) \o new \o SubSeq(s, p + Len(old), Len(s))

RECURSIVE Split(_, _)
\* strings.Split(s, sep) for a non-empty sep: empty pieces are kept
Split(s, sep) ==
    LET p == IndexFrom(s, sep, 1)
    IN  IF p = 0 THEN <<s>>
        ELSE <<SubSeq(s, 1, p - 1)>> \o Split(SubSeq(s, p + Len(sep), Len(s)), sep)

\* strings.SplitN(s, sep, 2)
SplitN2(s, sep) ==
    LET p == IndexFrom(s, sep, 1)
    IN  IF p = 0 THEN <<s>>
        ELSE <<SubSeq(s, 1, p - 1), SubSeq(s, p + Len(sep), Len(s))>>

RECURSIVE TrimLeft(_, _)
TrimLeft(s, cut) ==
    IF s # <<>> /\ Head(s) \in cut THEN TrimLeft(Tail(s), cut) ELSE s

RECURSIVE TrimRight(_, _)
TrimRight(s, cut) ==
    IF s # <<>> /\ s[Len(s)] \in cut
    THEN TrimRight(SubSeq(s, 1, Len(s) - 1), cut) ELSE s

\* strings.Trim(s, cutset)
Trim(s, cut) == TrimRight(TrimLeft(s, cut), cut)

\* strings.TrimSpace
TrimSpace(s) == Trim(s, SpaceChar)

RECURSIVE FieldsAcc(_, _, _)
FieldsAcc(s, cur, acc) ==
    IF s = <<>> THEN (IF cur = <<>> THEN acc ELSE Append(acc, cur))
    ELSE IF Head(s) \in SpaceChar
         THEN FieldsAcc(Tail(s), <<>>, IF cur = <<>> THEN acc ELSE Append(acc, cur))
         ELSE FieldsAcc(Tail(s), Append(cur, Head(s)), acc)

\* strings.Fields: the maximal runs of non-space characters
Fields(s) == FieldsAcc(s, <<>>, <<>>)

RECURSIVE Join(_, _)
\* strings.Join
Join(ss, sep) ==
    IF ss = <<>> THEN <<>>
    ELSE IF Len(ss) = 1 THEN ss[1]
    ELSE ss[1] \o sep \o Join(Tail(ss), sep)

RECURSIVE Decimal(_)
\* fmt.Sprintf("%d", n) for n >= 0
Decimal(n) ==
    IF n < 10 THEN <<Digits[n + 1]>>
    ELSE Append(Decimal(n \div 10), Digits[(n % 10) + 1])

-----------------------------------------------------------------------------
(* Regular expressions: syntax trees and the backtracking matcher *)

Lit(t) == [t |-> "lit", s |-> t]

Set(cs) == [t |-> "set", cs |-> cs]

NotSet(cs) == [t |-> "nset", cs |-> cs]

Cat(rs) == [t |-> "cat", rs |-> rs]

Alt(rs) == [t |-> "alt", rs |-> rs]

Opt(r) == [t |-> "opt", r |-> r]

Star(r) == [t |-> "star", r |-> r]

Plus(r) == Cat(<<r, Star(r)>>)

RECURSIVE Ends(_, _, _), EndsAll(_, _, _), EndsAlt(_, _, _)
\* The positions at which a match of re that starts at position p of s can
\* end, in the order the backtracking matcher tries them.
Ends(re, s, p) ==
    CASE re.t = "lit" ->
            IF HasPrefixAt(s, p, re.s) THEN <<p + Len(re.s)>> ELSE <<>>
      [] re.t = "set" ->
            IF p <= Len(s) /\ s[p] \in re.cs THEN <<p + 1>> ELSE <<>>
      [] re.t = "nset" ->
            IF p <= Len(s) /\ s[p] \notin re.cs THEN <<p + 1>> ELSE <<>>
      [] re.t = "cat" ->
            IF re.rs = <<>> THEN <<p>>
            ELSE EndsAll(Cat(Tail(re.rs)), s, Ends(Head(re.rs), s, p))
      [] re.t = "alt" -> EndsAlt(re.rs, s, p)
      [] re.t = "opt" -> Ends(re.r, s, p) \o <<p>>
      [] re.t = "star" ->
            EndsAll(re, s, SelectSeq(Ends(re.r, s, p), LAMBDA e : e > p)) \o <<p>>

EndsAll(re, s, ps) ==
    IF ps = <<>> THEN <<>>
    ELSE Ends(re, s, Head(ps)) \o EndsAll(re, s, Tail(ps))

EndsAlt(rs, s, p) ==
    IF rs = <<>> THEN <<>>
    ELSE Ends(Head(rs), s, p) \o EndsAlt(Tail(rs), s, p)

RECURSIVE FindFrom(_, _, _)
\* re.FindStringMatch / FindNextMatch: the leftmost match starting at or
\* after position p, as <<start, end>>; <<>> when there is none
FindFrom(re, s, p) ==
    IF p > Len(s) + 1 THEN <<>>
    ELSE LET es == Ends(re, s, p)
         IN  IF es # <<>> THEN <<p, Head(es)>> ELSE FindFrom(re, s, p + 1)

RECURSIVE MatchSpans(_, _, _)
\* FindStringMatch, then FindNextMatch until there is no match: the matches
\* from position p on, left to right, none overlapping another
MatchSpans(re, s, p) ==
    LET m == FindFrom(re, s, p)
    IN  IF m = <<>> THEN <<>>
        ELSE <<m>> \o MatchSpans(re, s, IF m[2] > m[1] THEN m[2] ELSE m[2] + 1)

\* regexp2FindAllString: m.String() of every match, the text of the whole match
regexp2FindAllString(re, s) ==
    LET spans == MatchSpans(re, s, 1)
    IN  [i \in DOMAIN spans |-> SubSeq(s, spans[i][1], spans[i][2] - 1)]

-----------------------------------------------------------------------------
(* The five regular expressions, main.go:16-20 *)

Quote == Set({DQ, SQ})

Spaces == Star(Set(SpaceChar))

\* [\w\s-]+
WordSpaceHyphen == Plus(Set(WordChar \cup SpaceChar \cup {"-"}))

\* class\s*=\s*["']?([\w\s-]+)["']?
htmlClassRegex ==
    Cat(<< Lit(<<"c","l","a","s","s">>), Spaces, Lit(<<"=">>), Spaces,
           Opt(Quote), WordSpaceHyphen, Opt(Quote) >>)

\* \.[a-zA-Z_][\w-]*
cssClassRegex ==
    Cat(<< Lit(<<".">>), Set(Letter \cup {"_"}), Star(Set(WordChar \cup {"-"})) >>)

\* querySelector(All)?\(\s*["']\.([\w\s.-]+)["']\s*\)
jsQuerySelectorRegex ==
    Cat(<< Lit(<<"q","u","e","r","y","S","e","l","e","c","t","o","r">>),
           Opt(Lit(<<"A","l","l">>)), Lit(<<"(">>), Spaces, Quote, Lit(<<".">>),
           Plus(Set(WordChar \cup SpaceChar \cup {".", "-"})),
           Quote, Spaces, Lit(<<")">>) >>)

\* classList\.(add|remove|toggle)\(\s*["']([\w\s-]+)["'](?:,\s*["']([\w\s-]+)["'])*\s*\)
jsClassListRegex ==
    Cat(<< Lit(<<"c","l","a","s","s","L","i","s","t",".">>),
           Alt(<< Lit(<<"a","d","d">>), Lit(<<"r","e","m","o","v","e">>),
                  Lit(<<"t","o","g","g","l","e">>) >>),
           Lit(<<"(">>), Spaces, Quote, WordSpaceHyphen, Quote,
           Star(Cat(<< Lit(<<",">>), Spaces, Quote, WordSpaceHyphen, Quote >>)),
           Spaces, Lit(<<")">>) >>)

\* [^"'\s]+
NoQuoteNoSpace == Plus(NotSet({DQ, SQ} \cup SpaceChar))

\* className\s*=\s*["']([^"'\s]+(?:\s+[^"'\s]+)*)["']
jsClassNameRegex ==
    Cat(<< Lit(<<"c","l","a","s","s","N","a","m","e">>), Spaces, Lit(<<"=">>),
           Spaces, Quote, NoQuoteNoSpace,
           Star(Cat(<< Plus(Set(SpaceChar)), NoQuoteNoSpace >>)), Quote >>)

-----------------------------------------------------------------------------
(* Pass 1: the recognisers, main.go:104-157 *)

\* classCount[className]++ on a Go map
Incr(classCount, className) ==
    IF className \in DOMAIN classCount
    THEN [classCount EXCEPT ![className] = @ + 1]
    ELSE classCount @@ (className :> 1)

RECURSIVE IncrAll(_, _)
IncrAll(classCount, names) ==
    IF names = <<>> THEN classCount
    ELSE IncrAll(Incr(classCount, Head(names)), Tail(names))

RECURSIVE FlatMapFields(_)
\* the strings.Fields of every match, in order
FlatMapFields(matches) ==
    IF matches = <<>> THEN <<>>
    ELSE Fields(Head(matches)) \o FlatMapFields(Tail(matches))

extractClassesFromHTML(line, classCount) ==
    IncrAll(classCount, FlatMapFields(regexp2FindAllString(htmlClassRegex, line)))

extractClassesFromCSS(line, classCount) ==
    LET matches == regexp2FindAllString(cssClassRegex, line)
    IN  IncrAll(classCount, [i \in DOMAIN matches |-> From(matches[i], 1)])

extractClassesFromClassList(match) ==
    LET insideParens == Slice(match, Index(match, <<"(">>) + 1, LastIndex(match, <<")">>))
        classNames == Split(insideParens, <<",">>)
    IN  [i \in DOMAIN classNames |-> Trim(TrimSpace(classNames[i]), {DQ, SQ})]

RECURSIVE QuerySegments(_)
\* strings.Split(match, ".")[1:] of every querySelector match
QuerySegments(matches) ==
    IF matches = <<>> THEN <<>>
    ELSE Tail(Split(Head(matches), <<".">>)) \o QuerySegments(Tail(matches))

RECURSIVE ClassListNames(_)
ClassListNames(matches) ==
    IF matches = <<>> THEN <<>>
    ELSE extractClassesFromClassList(Head(matches)) \o ClassListNames(Tail(matches))

extractClassesFromJS(line, classCount) ==
    LET c1 == IncrAll(classCount,
                      QuerySegments(regexp2FindAllString(jsQuerySelectorRegex, line)))
        c2 == IncrAll(c1, ClassListNames(regexp2FindAllString(jsClassListRegex, line)))
    IN  IncrAll(c2, FlatMapFields(regexp2FindAllString(jsClassNameRegex, line)))

-----------------------------------------------------------------------------
(* The short names, main.go:178-191 *)

\* a generator that drops the tier
generateShortClassNameNoTier(index) == <<Lower[(index % 26) + 1]>>

\* a generator that numbers the tiers from 0
generateShortClassNameTierFromZero(index) ==
    LET firstChar == Lower[(index % 26) + 1]
        second == index \div 26
    IN  IF second = 0 THEN <<firstChar>>
        ELSE IF second > 10 THEN <<firstChar, "a">> \o Decimal(second - 11)
        ELSE <<firstChar>> \o Decimal(second - 1)

generateShortClassName(index) ==
    LET firstChar == Lower[(index % 26) + 1]
        second == index \div 26
    IN  IF second = 0 THEN <<firstChar>>
        ELSE IF second > 9 THEN <<firstChar, "a">> \o Decimal(second - 10)
        ELSE <<firstChar>> \o Decimal(second)

-----------------------------------------------------------------------------
(* Pass 2: the rewriters, main.go:227-317 *)

\* classMap[className] when found, className otherwise
Lookup(classMap, className) ==
    IF className \in DOMAIN classMap THEN classMap[className] ELSE className

RECURSIVE UniqueAcc(_, _)
UniqueAcc(classes, unique) ==
    IF classes = <<>> THEN unique
    ELSE UniqueAcc(Tail(classes),
                   IF Head(classes) \in Range(unique) THEN unique
                   ELSE Append(unique, Head(classes)))

uniqueClasses(classes) == UniqueAcc(classes, <<>>)

RECURSIVE CSSLoop(_, _, _)
CSSLoop(updatedLine, matches, classMap) ==
    IF matches = <<>> THEN updatedLine
    ELSE LET match == Head(matches)
         IN  CSSLoop(IF From(match, 1) \in DOMAIN classMap
                     THEN ReplaceFirst(updatedLine, match,
                                       <<".">> \o classMap[From(match, 1)])
                     ELSE updatedLine,
                     Tail(matches), classMap)

updateCSSClasses(line, classMap) ==
    CSSLoop(line, regexp2FindAllString(cssClassRegex, line), classMap)

HTMLAttr(match, classMap, allowDuplicates) ==
    LET originalClasses == Fields(match)
        mapped == [i \in DOMAIN originalClasses |-> Lookup(classMap, originalClasses[i])]
        newClasses == IF ~allowDuplicates THEN uniqueClasses(mapped) ELSE mapped
    IN  <<"c","l","a","s","s","=",DQ>> \o Join(newClasses, <<" ">>) \o <<DQ>>

RECURSIVE HTMLLoop(_, _, _, _)
HTMLLoop(updatedLine, matches, classMap, allowDuplicates) ==
    IF matches = <<>> THEN updatedLine
    ELSE HTMLLoop(ReplaceFirst(updatedLine, Head(matches),
                               HTMLAttr(Head(matches), classMap, allowDuplicates)),
                  Tail(matches), classMap, allowDuplicates)

updateHTMLClasses(line, classMap, allowDuplicates) ==
    HTMLLoop(line, regexp2FindAllString(htmlClassRegex, line), classMap, allowDuplicates)

\* main.go:263-274, one querySelector match
QueryRewrite(updatedLine, match, classMap) ==
    LET parts == SplitN2(match, <<".">>)
    IN  IF Len(parts) = 2 /\ HasSuffix(parts[2], <<DQ, ")">>)
        THEN LET classes == Split(Slice(parts[2], 0, Len(parts[2]) - 2), <<".">>)
                 renamed == [i \in DOMAIN classes |-> Lookup(classMap, classes[i])]
             IN  ReplaceFirst(updatedLine, match,
                              parts[1] \o <<".">> \o Join(renamed, <<".">>) \o <<DQ, ")">>)
        ELSE updatedLine

\* main.go:277-290, one classList match
ClassListRewrite(updatedLine, match, classMap) ==
    LET start == Index(match, <<"(">>) + 1
        end == LastIndex(match, <<")">>)
        classNames == Split(Slice(match, start, end), <<",">>)
        quoted == [i \in DOMAIN classNames |->
                     <<DQ>> \o Lookup(classMap, Trim(classNames[i], {DQ, SQ, " "})) \o <<DQ>>]
    IN  ReplaceFirst(updatedLine, match,
                     Slice(match, 0, start) \o Join(quoted, <<",", " ">>) \o From(match, end))

\* main.go:293-302, one className match
ClassNameRewrite(updatedLine, match, classMap) ==
    LET start == Index(match, <<"=">>) + 1
        classes == Fields(Trim(From(match, start), {" ", DQ, SQ, BQ}))
        renamed == [i \in DOMAIN classes |-> Lookup(classMap, classes[i])]
    IN  ReplaceFirst(updatedLine, match,
                     <<"c","l","a","s","s","N","a","m","e"," ","="," ",SQ>>
                     \o Join(renamed, <<" ">>) \o <<SQ>>)

RECURSIVE QueryLoop(_, _, _)
QueryLoop(updatedLine, matches, classMap) ==
    IF matches = <<>> THEN updatedLine
    ELSE QueryLoop(QueryRewrite(updatedLine, Head(matches), classMap),
                   Tail(matches), classMap)

RECURSIVE ClassListLoop(_, _, _)
ClassListLoop(updatedLine, matches, classMap) ==
    IF matches = <<>> THEN updatedLine
    ELSE ClassListLoop(ClassListRewrite(updatedLine, Head(matches), classMap),
                       Tail(matches), classMap)

RECURSIVE ClassNameLoop(_, _, _)
ClassNameLoop(updatedLine, matches, classMap) ==
    IF matches = <<>> THEN updatedLine
    ELSE ClassNameLoop(ClassNameRewrite(updatedLine, Head(matches), classMap),
                       Tail(matches), classMap)

updateJSClasses(line, classMap) ==
    LET l1 == QueryLoop(line, regexp2FindAllString(jsQuerySelectorRegex, line), classMap)
        l2 == ClassListLoop(l1, regexp2FindAllString(jsClassListRegex, l1), classMap)
    IN  ClassNameLoop(l2, regexp2FindAllString(jsClassNameRegex, l2), classMap)

-----------------------------------------------------------------------------
(* Ranking and the class map, main.go:159-176 *)

\* the one-to-one maps from the set S onto 1..Cardinality(S)
Numberings(S) == {p \in [S -> 1..Cardinality(S)] : Range(p) = 1..Cardinality(S)}

RECURSIVE TiePositions(_, _)
\* groups are sets of names with one count each; before[k] names sort before
\* k.  The ways to place every group's names, in any order, right after the
\* names that sort before them.
TiePositions(groups, before) ==
    IF groups = {} THEN {<<>>}
    ELSE LET g == CHOOSE g \in groups : TRUE
             first == before[CHOOSE k \in g : TRUE]
         IN  {[k \in g |-> first + p[k]] @@ r :
                p \in Numberings(g), r \in TiePositions(groups \ {g}, before)}

\* a ranking with the comparison turned around: least used first
rankClassesAscending(classCount) ==
    LET names == DOMAIN classCount
        before == [k \in names |-> Cardinality({j \in names : classCount[j] < classCount[k]})]
        groups == {{j \in names : classCount[j] = classCount[k]} : k \in names}
        alone == {k \in names : {k} \in groups}
        tied == {g \in groups : Cardinality(g) > 1}
    IN  { [i \in 1..Cardinality(names) |->
             LET k == CHOOSE k \in names : pos[k] = i
             IN  [name |-> k, count |-> classCount[k]]] :
          pos \in {t @@ [k \in alone |-> before[k] + 1] : t \in TiePositions(tied, before)} }

\* rankClasses: the map's entries sorted by sort.Slice with
\* less(i, j) = count[i] > count[j].  Map iteration is in no fixed order and
\* sort.Slice is not stable, so every order with non-increasing counts is a
\* possible result: a name stands after the names counted more often, names
\* counted equally often stand in any order.
rankClasses(classCount) ==
    LET names == DOMAIN classCount
        before == [k \in names |-> Cardinality({j \in names : classCount[j] > classCount[k]})]
        groups == {{j \in names : classCount[j] = classCount[k]} : k \in names}
        alone == {k \in names : {k} \in groups}
        tied == {g \in groups : Cardinality(g) > 1}
    IN  { [i \in 1..Cardinality(names) |->
             LET k == CHOOSE k \in names : pos[k] = i
             IN  [name |-> k, count |-> classCount[k]]] :
          pos \in {t @@ [k \in alone |-> before[k] + 1] : t \in TiePositions(tied, before)} }

\* generateClassMap: classMap[class.name] = generateShortClassName(i) for
\* i from 0; a later entry of the same name overwrites an earlier one
generateClassMap(classes) ==
    [name \in {classes[i].name : i \in DOMAIN classes} |->
        LET last == CHOOSE i \in DOMAIN classes :
                        /\ classes[i].name = name
                        /\ \A j \in DOMAIN classes : classes[j].name = name => j <= i
        IN  generateShortClassName(last - 1)]

-----------------------------------------------------------------------------
(* The directory tree the run is given *)

\* at most this many entries below the root
MaxFiles == 2

Root == [path |-> ".", ext |-> "", isDir |-> TRUE]

\* The entries a tree is made of, in the lexical order filepath.WalkDir
\* visits them.  ext is filepath.Ext(path).
Pool ==
    << [path |-> "a.css",  ext |-> ".css",  isDir |-> FALSE],
       [path |-> "b.html", ext |-> ".html", isDir |-> FALSE],
       [path |-> "c.js",   ext |-> ".js",   isDir |-> FALSE],
       [path |-> "e.txt",  ext |-> ".txt",  isDir |-> FALSE],
       [path |-> "sub",    ext |-> "",      isDir |-> TRUE] >>

\* The lines of each file before the run
Content(path) ==
    CASE path = "a.css" ->
            << <<".","z","z","z",":","h","o","v","e","r">>,
               <<".","z","z","z"," ",".","a">> >>
      [] path = "b.html" ->
            << <<"<","d","i","v"," ","c","l","a","s","s","=",DQ,
                 "f","o","o"," ","b","a","r"," ","f","o","o",DQ,">">> >>
      [] path = "c.js" ->
            << <<"x",".","c","l","a","s","s","L","i","s","t",".","a","d","d","(",
                 DQ,"f","o","o",DQ,","," ",DQ,"b","a","r",DQ,","," ",SQ,"f","o","o",SQ,")">>,
               <<"q","u","e","r","y","S","e","l","e","c","t","o","r","(",DQ,
                 ".","f","o","o",DQ,")">> >>
      [] path = "e.txt" ->
            << <<".","z","z","z">> >>
      [] OTHER -> <<>>

\* the trees: the root and at most MaxFiles entries of the pool
Trees ==
    { <<Root>> \o SelectSeq(Pool, LAMBDA e : e \in S) :
        S \in {T \in SUBSET Range(Pool) : Cardinality(T) <= MaxFiles} }

-----------------------------------------------------------------------------
(* The state of a run of main *)

VARIABLES
    dir,              \* the entries WalkDir visits, in order
    fs,               \* the file system: path -> lines
    preview,          \* -preview
    allowDuplicates,  \* -allow-duplicates
    pc,               \* where main is
    fidx,             \* the entry the walk is at
    lidx,             \* the next line the scanner of the open file returns
    classCount,       \* main.go:43
    classes,          \* main.go:58
    classMap,         \* main.go:59
    line,             \* main.go:211
    updatedLine,      \* main.go:212
    wbuf,             \* the lines held by the bufio.Writer of main.go:208
    wErr,             \* the sticky error of that writer
    stdout            \* the lines printed, as a set

vars == <<dir, fs, preview, allowDuplicates, pc, fidx, lidx, classCount,
          classes, classMap, line, updatedLine, wbuf, wErr, stdout>>

Ext(e) == e.ext

TempPath(path) == path \o ".tmp"

isSupportedFile(e) ==
    Ext(e) = ".html" \/ Ext(e) = ".css" \/ Ext(e) = ".js" \/ Ext(e) = ".php"

Init ==
    /\ dir \in Trees
    /\ fs = [p \in {dir[i].path : i \in 2..Len(dir)} |-> Content(p)]
    /\ preview \in BOOLEAN
    /\ allowDuplicates \in BOOLEAN
    /\ pc = "walk1"
    /\ fidx = 1
    /\ lidx = 1
    /\ classCount = <<>>
    /\ classes = <<>>
    /\ classMap = <<>>
    /\ line = <<>>
    /\ updatedLine = <<>>
    /\ wbuf = <<>>
    /\ wErr = FALSE
    /\ stdout = {}

-----------------------------------------------------------------------------
(* Pass 1, main.go:43-56 and processFile *)

\* The walk function is called with an error (a directory that cannot be
\* read): it returns the error, WalkDir returns it, main returns.
Walk1Error ==
    /\ pc = "walk1" /\ fidx <= Len(dir)
    /\ dir[fidx].isDir
    /\ pc' = "done"
    /\ UNCHANGED <<dir, fs, preview, allowDuplicates, fidx, lidx, classCount,
                   classes, classMap, line, updatedLine, wbuf, wErr, stdout>>

\* a directory, an unsupported file, or a file os.Open fails on: next entry
Walk1Skip ==
    /\ pc = "walk1" /\ fidx <= Len(dir)
    /\ fidx' = fidx + 1
    /\ UNCHANGED <<dir, fs, preview, allowDuplicates, pc, lidx, classCount,
                   classes, classMap, line, updatedLine, wbuf, wErr, stdout>>

\* processFile opens the file
Walk1Open ==
    /\ pc = "walk1" /\ fidx <= Len(dir)
    /\ ~dir[fidx].isDir /\ isSupportedFile(dir[fidx])
    /\ pc' = "scan1"
    /\ lidx' = 1
    /\ UNCHANGED <<dir, fs, preview, allowDuplicates, fidx, classCount,
                   classes, classMap, line, updatedLine, wbuf, wErr, stdout>>

\* the dispatch of main.go:93-100
extractClasses(e, text, cc) ==
    IF Ext(e) = ".css" THEN extractClassesFromCSS(text, cc)
    ELSE IF Ext(e) = ".js" THEN extractClassesFromJS(text, cc)
    ELSE extractClassesFromHTML(text, cc)

\* scanner.Scan returns a line
Scan1Line ==
    /\ pc = "scan1"
    /\ lidx <= Len(fs[dir[fidx].path])
    /\ classCount' = extractClasses(dir[fidx], fs[dir[fidx].path][lidx], classCount)
    /\ lidx' = lidx + 1
    /\ UNCHANGED <<dir, fs, preview, allowDuplicates, pc, fidx,
                   classes, classMap, line, updatedLine, wbuf, wErr, stdout>>

\* scanner.Scan returns false, at the end of the file or on a read error:
\* processFile returns and its scanner is gone
Scan1End ==
    /\ pc = "scan1"
    /\ pc' = "walk1"
    /\ fidx' = fidx + 1
    /\ lidx' = 1
    /\ UNCHANGED <<dir, fs, preview, allowDuplicates, classCount,
                   classes, classMap, line, updatedLine, wbuf, wErr, stdout>>

Walk1Done ==
    /\ pc = "walk1" /\ fidx > Len(dir)
    /\ pc' = "rank"
    /\ UNCHANGED <<dir, fs, preview, allowDuplicates, fidx, lidx, classCount,
                   classes, classMap, line, updatedLine, wbuf, wErr, stdout>>

-----------------------------------------------------------------------------
(* main.go:58-62 *)

RankClasses ==
    /\ pc = "rank"
    /\ classes' \in rankClasses(classCount)
    /\ pc' = "map"
    /\ UNCHANGED <<dir, fs, preview, allowDuplicates, fidx, lidx, classCount,
                   classMap, line, updatedLine, wbuf, wErr, stdout>>

\* a main that rewrites the files in a preview run too
AfterMapIgnoringPreview == "walk2"

\* where main goes once the class map is built, main.go:60-63
AfterMap == IF preview THEN "print" ELSE "walk2"

GenerateClassMap ==
    /\ pc = "map"
    /\ classMap' = generateClassMap(classes)
    /\ pc' = AfterMap
    /\ fidx' = 1
    /\ UNCHANGED <<dir, fs, preview, allowDuplicates, lidx, classCount,
                   classes, line, updatedLine, wbuf, wErr, stdout>>

\* printClassMap: one line "original -> short" per entry, in map order
PrintClassMap ==
    /\ pc = "print"
    /\ stdout' = stdout \cup
                   {k \o <<" ","-",">"," ">> \o classMap[k] : k \in DOMAIN classMap}
    /\ pc' = "done"
    /\ UNCHANGED <<dir, fs, preview, allowDuplicates, fidx, lidx, classCount,
                   classes, classMap, line, updatedLine, wbuf, wErr>>

-----------------------------------------------------------------------------
(* Pass 2, main.go:63-75 and renameClassesInFile *)

ErrorLine == <<"Error during file processing">>

\* the walk function is called with an error: main prints it and ends
Walk2Error ==
    /\ pc = "walk2" /\ fidx <= Len(dir)
    /\ dir[fidx].isDir
    /\ stdout' = stdout \cup {ErrorLine}
    /\ pc' = "done"
    /\ UNCHANGED <<dir, fs, preview, allowDuplicates, fidx, lidx, classCount,
                   classes, classMap, line, updatedLine, wbuf, wErr>>

\* a directory, an unsupported file, or a file os.Open fails on: next entry
Walk2Skip ==
    /\ pc = "walk2" /\ fidx <= Len(dir)
    /\ fidx' = fidx + 1
    /\ UNCHANGED <<dir, fs, preview, allowDuplicates, pc, lidx, classCount,
                   classes, classMap, line, updatedLine, wbuf, wErr, stdout>>

\* renameClassesInFile opens the input, main.go:195
Walk2Open ==
    /\ pc = "walk2" /\ fidx <= Len(dir)
    /\ ~dir[fidx].isDir /\ isSupportedFile(dir[fidx])
    /\ pc' = "create"
    /\ UNCHANGED <<dir, fs, preview, allowDuplicates, fidx, lidx, classCount,
                   classes, classMap, line, updatedLine, wbuf, wErr, stdout>>

\* os.Create(tempPath) fails: return, main.go:201-204
CreateFail ==
    /\ pc = "create"
    /\ pc' = "walk2"
    /\ fidx' = fidx + 1
    /\ UNCHANGED <<dir, fs, preview, allowDuplicates, lidx, classCount,
                   classes, classMap, line, updatedLine, wbuf, wErr, stdout>>

\* os.Create(tempPath) makes the empty temporary file
CreateOk ==
    /\ pc = "create"
    /\ fs' = (TempPath(dir[fidx].path) :> <<>>) @@ fs
    /\ pc' = "scan2"
    /\ lidx' = 1
    /\ wbuf' = <<>>
    /\ wErr' = FALSE
    /\ UNCHANGED <<dir, preview, allowDuplicates, fidx, classCount,
                   classes, classMap, line, updatedLine, stdout>>

\* the dispatch of main.go:213-219
updateClasses(e, text, cm, dup) ==
    IF Ext(e) = ".css" THEN updateCSSClasses(text, cm)
    ELSE IF Ext(e) = ".js" THEN updateJSClasses(text, cm)
    ELSE updateHTMLClasses(text, cm, dup)

\* fs with lines appended to the file at path
AppendTo(path, lines) == [fs EXCEPT ![path] = @ \o lines]

\* writer.WriteString(updatedLine + "\n") and writer.Flush, whose results the
\* code drops.  With the sticky error set nothing is written.  Otherwise the
\* line stays in the buffer (WriteString only), or the buffer is written to
\* the file, or the write fails after a part of the buffer reached the file.
WriterStep(pending, mayBuffer) ==
    LET tmp == TempPath(dir[fidx].path)
    IN  IF wErr THEN UNCHANGED <<fs, wbuf, wErr>>
        ELSE \/ /\ mayBuffer
                /\ wbuf' = pending
                /\ UNCHANGED <<fs, wErr>>
             \/ /\ fs' = AppendTo(tmp, pending)
                /\ wbuf' = <<>>
                /\ UNCHANGED wErr
             \/ /\ pending # <<>>
                /\ \E k \in 0..(Len(pending) - 1) :
                      fs' = AppendTo(tmp, SubSeq(pending, 1, k))
                /\ wbuf' = <<>>
                /\ wErr' = TRUE

\* scanner.Scan returns a line: rewrite it and write it, main.go:210-221
Scan2Line ==
    /\ pc = "scan2"
    /\ lidx <= Len(fs[dir[fidx].path])
    /\ line' = fs[dir[fidx].path][lidx]
    /\ updatedLine' = updateClasses(dir[fidx], line', classMap, allowDuplicates)
    /\ WriterStep(Append(wbuf, updatedLine'), TRUE)
    /\ lidx' = lidx + 1
    /\ UNCHANGED <<dir, preview, allowDuplicates, pc, fidx, classCount,
                   classes, classMap, stdout>>

\* scanner.Scan returns false: the end of the file, or a read error
Scan2End ==
    /\ pc = "scan2"
    /\ pc' = "flush"
    /\ UNCHANGED <<dir, fs, preview, allowDuplicates, fidx, lidx, classCount,
                   classes, classMap, line, updatedLine, wbuf, wErr, stdout>>

\* writer.Flush(), main.go:223
Flush ==
    /\ pc = "flush"
    /\ WriterStep(wbuf, FALSE)
    /\ pc' = "rename"
    /\ UNCHANGED <<dir, preview, allowDuplicates, fidx, lidx, classCount,
                   classes, classMap, line, updatedLine, stdout>>

\* renameClassesInFile returns: its scanner, writer and lines are gone
Return ==
    /\ lidx' = 1
    /\ line' = <<>>
    /\ updatedLine' = <<>>
    /\ wbuf' = <<>>
    /\ wErr' = FALSE

\* os.Rename(tempPath, path) replaces the file, main.go:224
RenameOk ==
    /\ pc = "rename"
    /\ LET path == dir[fidx].path
           tmp == TempPath(path)
       IN  fs' = [p \in DOMAIN fs \ {tmp} |-> IF p = path THEN fs[tmp] ELSE fs[p]]
    /\ pc' = "walk2"
    /\ fidx' = fidx + 1
    /\ Return
    /\ UNCHANGED <<dir, preview, allowDuplicates, classCount,
                   classes, classMap, stdout>>

\* os.Rename fails; its error is dropped
RenameFail ==
    /\ pc = "rename"
    /\ pc' = "walk2"
    /\ fidx' = fidx + 1
    /\ Return
    /\ UNCHANGED <<dir, fs, preview, allowDuplicates, classCount,
                   classes, classMap, stdout>>

Walk2Done ==
    /\ pc = "walk2" /\ fidx > Len(dir)
    /\ pc' = "done"
    /\ UNCHANGED <<dir, fs, preview, allowDuplicates, fidx, lidx, classCount,
                   classes, classMap, line, updatedLine, wbuf, wErr, stdout>>

Next ==
    \/ Walk1Error \/ Walk1Skip \/ Walk1Open \/ Scan1Line \/ Scan1End \/ Walk1Done
    \/ RankClasses \/ GenerateClassMap \/ PrintClassMap
    \/ Walk2Error \/ Walk2Skip \/ Walk2Open \/ CreateFail \/ CreateOk
    \/ Scan2Line \/ Scan2End \/ Flush \/ RenameOk \/ RenameFail \/ Walk2Done

Spec == Init /\ [][Next]_vars

-----------------------------------------------------------------------------
(* rankClasses and generateClassMap on usage tables of every size *)

\* the largest usage table has this many class names
MaxClasses == 262

\* at most this many of the least used names are counted once more
MaxTied == 2

\* the k-th class name: c1, c2, ...
ClassName(k) == <<"c">> \o Decimal(k)

\* The table of c1 .. cn in which ck was counted k times, and once more when
\* k is in again: for again = {1}, c1 and c2 are both counted twice.
UsageTable(n, again) ==
    [name \in {ClassName(k) : k \in 1..n} |->
        LET k == CHOOSE k \in 1..n : ClassName(k) = name
        IN  k + IF k \in again THEN 1 ELSE 0]

\* the sizes of the tables: the small ones, and those around MaxClasses
MaxSmall == 40

Sizes == (0..MaxSmall) \cup ((MaxClasses - 2)..MaxClasses)

UsageTables == {UsageTable(n, again) : n \in Sizes, again \in SUBSET (1..MaxTied)}

InitRank ==
    /\ classCount \in UsageTables
    /\ pc = "rank"
    /\ dir = <<Root>>
    /\ fs = <<>>
    /\ preview \in BOOLEAN
    /\ allowDuplicates = FALSE
    /\ fidx = 1
    /\ lidx = 1
    /\ classes = <<>>
    /\ classMap = <<>>
    /\ line = <<>>
    /\ updatedLine = <<>>
    /\ wbuf = <<>>
    /\ wErr = FALSE
    /\ stdout = {}

NextRank == RankClasses \/ GenerateClassMap \/ PrintClassMap

SpecRank == InitRank /\ [][NextRank]_vars

-----------------------------------------------------------------------------
(* The class map *)

\* main is past generateClassMap and has not ended
MapBuilt == pc \in {"print", "walk2", "create", "scan2", "flush", "rename"}

\* C2: the class map has exactly the names of the usage table as keys, each
\* ranked once; no two names share a short name; the name at rank i has the
\* short name generateShortClassName(i).
C2_ClassMapIsBijection ==
    MapBuilt =>
        /\ DOMAIN classMap = DOMAIN classCount
        /\ Len(classes) = Cardinality(DOMAIN classCount)
        /\ \A x, y \in DOMAIN classMap : x # y => classMap[x] # classMap[y]
        /\ \A i \in DOMAIN classes :
              classMap[classes[i].name] = generateShortClassName(i - 1)

\* a map of MaxClasses names, two of them counted equally often, is built
C2_Witness ==
    /\ MapBuilt
    /\ Len(classes) = MaxClasses
    /\ \E i \in DOMAIN classes :
          i < Len(classes) /\ classes[i].count = classes[i + 1].count

\* the short name the built map gives the name at 0-based rank i, <<>> when
\* the ranking is shorter
NameAtRank(i) ==
    IF i + 1 \in DOMAIN classes THEN classMap[classes[i + 1].name] ELSE <<>>

-----------------------------------------------------------------------------
(* Ranking and the passes *)

RewritePass == {"walk2", "create", "scan2", "flush", "rename"}

\* classes ranks every counted name with its count; a more often counted
\* name is ranked before, and named no longer than, a less often counted one
RankedByCount ==
    MapBuilt =>
        /\ {classes[i].name : i \in DOMAIN classes} = DOMAIN classCount
        /\ \A i, j \in DOMAIN classes :
              /\ classes[i].count = classCount[classes[i].name]
              /\ classes[i].count > classes[j].count =>
                    /\ i < j
                    /\ Len(classMap[classes[i].name]) <= Len(classMap[classes[j].name])

\* no step of the rewrite pass changes the ranking or the class map
MapKept == pc \in RewritePass => classMap' = classMap /\ classes' = classes

\* C4: a name counted more often than another is ranked strictly before it
\* and its short name is no longer; the class map built after the collection
\* is the one every step of the rewrite pass has, however ties were broken.
C4_RankingOrder == []RankedByCount /\ [][MapKept]_vars

\* a line has been rewritten with a map in which two names counted equally
\* often are ranked before a name counted less often
C4_Witness ==
    /\ pc = "scan2" /\ lidx > 1
    /\ \E i, j, k \in DOMAIN classes :
          /\ i < j /\ j < k
          /\ classes[i].count = classes[j].count
          /\ classes[j].count > classes[k].count
          /\ classMap[classes[i].name] # classMap[classes[k].name]

\* the files of the tree as they are before the run
InitialFs == [p \in {dir[i].path : i \in 2..Len(dir)} |-> Content(p)]

CollectionPass == {"walk1", "scan1", "rank", "map"}

\* the lines printClassMap prints for the class map
PreviewLines == {k \o <<" ","-",">"," ">> \o classMap[k] : k \in DOMAIN classMap}

\* before the class map is built, and in a preview run, the files are as
\* they were; a preview run that ended printed the lines of the class map
FilesUntouched ==
    /\ (pc \in CollectionPass \/ preview) => fs = InitialFs
    /\ (preview /\ pc = "done" /\ classes # <<>>) => stdout = PreviewLines

\* a step of the collection pass, the one that ends the run on a traversal
\* error included, and a step of a preview run leave the files alone
CollectionKeepsFiles == (pc \in CollectionPass \/ preview) => fs' = fs

\* C9: no file is created, written or renamed before the collection pass has
\* finished and the class map is built; a preview run changes no file and
\* prints one "original -> short" line per entry of the class map; a run
\* whose collection walk returns an error ends without changing a file.
C9_NoWriteBeforeMap == []FilesUntouched /\ [][CollectionKeepsFiles]_vars

\* a preview run over a tree with files has ended, has printed two lines or
\* more and has left the files as they were
C9_Witness ==
    /\ preview /\ pc = "done"
    /\ Len(dir) > 1
    /\ Cardinality(stdout) >= 2
    /\ fs = InitialFs

-----------------------------------------------------------------------------
(* What the rewriters are to do: the class names of a line, by dialect *)

\* the characters around the class names of a construct
Wrapping == SpaceChar \cup {DQ, SQ, ")"}

\* the text of a match after the first sep, without the wrapping
Inner(match, sep) == Trim(From(match, Index(match, sep) + 1), Wrapping)

NonEmpty(ss) == SelectSeq(ss, LAMBDA t : t # <<>>)

\* the text of each match of re in s
Constructs(re, s) == regexp2FindAllString(re, s)

\* the class names of each class attribute of a markup line
MarkupTokens(s) ==
    LET ms == Constructs(htmlClassRegex, s)
    IN  [i \in DOMAIN ms |-> Fields(Inner(ms[i], <<"=">>))]

\* the class name of each selector of a stylesheet line
StyleTokens(s) ==
    LET ms == Constructs(cssClassRegex, s)
    IN  [i \in DOMAIN ms |-> <<From(ms[i], 1)>>]

\* the class names of each querySelector, classList and className construct
\* of a script line
ScriptTokens(s) ==
    LET qs == Constructs(jsQuerySelectorRegex, s)
        ls == Constructs(jsClassListRegex, s)
        ns == Constructs(jsClassNameRegex, s)
        args(m) == Split(Inner(m, <<"(">>), <<",">>)
    IN  [i \in DOMAIN qs |-> NonEmpty(Split(Inner(qs[i], <<"(">>), <<".">>))]
        \o [i \in DOMAIN ls |->
              [j \in DOMAIN args(ls[i]) |-> Trim(args(ls[i])[j], Wrapping)]]
        \o [i \in DOMAIN ns |-> Fields(Inner(ns[i], <<"=">>))]

\* the class names of a line of a file with extension ext, construct by
\* construct
ClassTokens(ext, s) ==
    IF ext = ".css" THEN StyleTokens(s)
    ELSE IF ext = ".js" THEN ScriptTokens(s)
    ELSE MarkupTokens(s)

RECURSIVE Flatten(_)
Flatten(ss) == IF ss = <<>> THEN <<>> ELSE Head(ss) \o Flatten(Tail(ss))

\* the names the class map gives the class names of one construct
Renamed(tokens, cm) == [i \in DOMAIN tokens |-> Lookup(cm, tokens[i])]

RECURSIVE Splice(_, _, _, _)
\* s from the end of span i - 1 on, with the text of each span from the i-th
\* on replaced by the text news has for it
Splice(s, spans, news, i) ==
    LET from == IF i = 1 THEN 1 ELSE spans[i - 1][2]
    IN  IF i > Len(spans) THEN SubSeq(s, from, Len(s))
        ELSE SubSeq(s, from, spans[i][1] - 1) \o news[i]
             \o Splice(s, spans, news, i + 1)

\* the stylesheet line with each selector renamed where it stands
ExpectedCSS(s, cm) ==
    LET spans == MatchSpans(cssClassRegex, s, 1)
        toks == StyleTokens(s)
    IN  Splice(s, spans, [i \in DOMAIN spans |-> <<".">> \o Lookup(cm, toks[i][1])], 1)

\* the markup line with each class attribute rebuilt from its renamed names
ExpectedHTML(s, cm, dup) ==
    LET spans == MatchSpans(htmlClassRegex, s, 1)
        toks == MarkupTokens(s)
        names(i) == IF dup THEN Renamed(toks[i], cm)
                    ELSE uniqueClasses(Renamed(toks[i], cm))
    IN  Splice(s, spans,
               [i \in DOMAIN spans |->
                  <<"c","l","a","s","s","=",DQ>> \o Join(names(i), <<" ">>) \o <<DQ>>], 1)

\* the text of s outside the matches of re
Outside(re, s) ==
    LET spans == MatchSpans(re, s, 1)
    IN  Splice(s, spans, [i \in DOMAIN spans |-> <<>>], 1)

-----------------------------------------------------------------------------
(* The rewrite pass *)

\* line and updatedLine are a line of the file being rewritten and what
\* renameClassesInFile made of it
Rewritten == pc \in {"scan2", "flush", "rename"} /\ lidx > 1

CurExt == Ext(dir[fidx])

Markup(ext) == ext \notin {".css", ".js"}

\* the class names of the line read
LineNames == Range(Flatten(ClassTokens(CurExt, line)))

\* what the class names of each construct of s are to become
ExpectedTokens(ext, s, cm, dup) ==
    LET toks == ClassTokens(ext, s)
    IN  [i \in DOMAIN toks |->
            IF Markup(ext) /\ ~dup THEN uniqueClasses(Renamed(toks[i], cm))
            ELSE Renamed(toks[i], cm)]

RECURSIVE CollectLines(_, _, _, _)
\* cc after the recogniser of entry e has counted the lines from the k-th on
CollectLines(e, lines, k, cc) ==
    IF k > Len(lines) THEN cc
    ELSE CollectLines(e, lines, k + 1, extractClasses(e, lines[k], cc))

RECURSIVE CollectFrom(_, _)
\* cc after a collection pass without failures over the entries from the
\* i-th on
CollectFrom(i, cc) ==
    IF i > Len(dir) THEN cc
    ELSE CollectFrom(i + 1,
                     IF ~dir[i].isDir /\ isSupportedFile(dir[i])
                     THEN CollectLines(dir[i], Content(dir[i].path), 1, cc)
                     ELSE cc)

\* the collection pass has counted every line of every supported file
WholeTreeCollected == classCount = CollectFrom(1, <<>>)

\* C1: after a collection pass over the whole tree, in every file and at
\* every position of a construct, a class name that is a key of the class
\* map is replaced by its short name: the class
\* names of the constructs of a rewritten line are those of the line read,
\* renamed by the class map (and deduplicated in markup when duplicates are
\* suppressed).
C1_ConsistentRenaming ==
    (Rewritten /\ WholeTreeCollected) =>
        ClassTokens(CurExt, updatedLine)
            = ExpectedTokens(CurExt, line, classMap, allowDuplicates)

\* every key of the class map is a class name
KeysAreClassNames ==
    \A k \in DOMAIN classMap :
        k # <<>> /\ \A i \in DOMAIN k : k[i] \in WordChar \cup {"-"}

\* C5: with a class map whose keys are class names, one of them on the line,
\* a markup line is rewritten to the same line with each class attribute
\* replaced by class="..." of the renamed names, joined by single spaces and
\* deduplicated in first-occurrence order when duplicates are suppressed.
C5_MarkupRewriting ==
    (/\ Rewritten /\ Markup(CurExt)
     /\ KeysAreClassNames
     /\ LineNames \cap DOMAIN classMap # {})
        => updatedLine = ExpectedHTML(line, classMap, allowDuplicates)

\* C6: with an injective class map a stylesheet line is rewritten to the line
\* in which each selector is replaced where it stands and every other
\* character is unchanged.
C6_StylesheetPositional ==
    (/\ Rewritten /\ CurExt = ".css"
     /\ \A x, y \in DOMAIN classMap : x # y => classMap[x] # classMap[y])
        => updatedLine = ExpectedCSS(line, classMap)

\* the text of s outside the constructs of its dialect
OutsideConstructs(ext, s) ==
    IF ext = ".css" THEN Outside(cssClassRegex, s)
    ELSE IF ext = ".js"
         THEN Outside(jsClassNameRegex,
                      Outside(jsClassListRegex, Outside(jsQuerySelectorRegex, s)))
    ELSE Outside(htmlClassRegex, s)

\* C7: a line none of whose class names is a key of the class map (every
\* line, when the map is empty) keeps the class names of each construct, less
\* the duplicates in markup when they are suppressed, and the text outside
\* its constructs.
C7_PassThrough ==
    (Rewritten /\ LineNames \cap DOMAIN classMap = {})
        => /\ ClassTokens(CurExt, updatedLine)
                = ExpectedTokens(CurExt, line, classMap, allowDuplicates)
           /\ OutsideConstructs(CurExt, updatedLine) = OutsideConstructs(CurExt, line)

\* every line of the file of entry e, rewritten
FullRewrite(e) ==
    [k \in DOMAIN Content(e.path) |->
        updateClasses(e, Content(e.path)[k], classMap, allowDuplicates)]

\* C8: at every step the content at the path of a file is its complete
\* original content or its complete rewritten content, one rewritten line for
\* every line of the original.
C8_AllOrNothing ==
    \A i \in 2..Len(dir) :
        \/ fs[dir[i].path] = Content(dir[i].path)
        \/ fs[dir[i].path] = FullRewrite(dir[i])

\* processFile hands a line of a script file to extractClassesFromJS, which
\* counts each class name of each construct of the line once and no other key
ScriptLineCounted ==
    (pc = "scan1" /\ Ext(dir[fidx]) = ".js" /\ lidx' = lidx + 1)
        => classCount' = IncrAll(classCount,
                                 Flatten(ScriptTokens(fs[dir[fidx].path][lidx])))

\* C10: for every script line extractClassesFromJS increments by 1 exactly
\* the class names of each recognised construct (the segments of a
\* querySelector string, the arguments of classList, the tokens of className)
\* and no other key.
C10_ScriptNamesCounted == [][ScriptLineCounted]_vars

=============================================================================
